---- MODULE Spec2Model ----
(***************************************************************************)
(* Model of routes/api.js: the picture sampler and the handlers that keep  *)
(* the record store (Category, Picture) and the upload directory in step.  *)
(* Every asynchronous call of a handler (a store query, fs.rename,         *)
(* fs.unlink) is a task of the request; it completes in an action of its   *)
(* own, together with the continuation the code attaches to it.  Calls the *)
(* code issues without attaching a continuation (save(), remove()) are     *)
(* kept in `pending` and complete on their own.                            *)
(***************************************************************************)
EXTENDS Integers, Sequences, FiniteSets, TLC

\* ---- bounds of the model -------------------------------------------------
NumReqs == 2      \* requests that can be in flight together
MaxOps == 2       \* requests started in one behaviour
MaxLimit == 3     \* greatest :limit a sampler request asks for
SeedPics == 2     \* pictures of category 1 stored before the first request
MaxFaults == 1    \* store and file-system calls that fail for an outside reason
MaxSamplers == 1  \* sampler requests among the requests in flight or answered

\* ---- program constants ---------------------------------------------------
latestItemsLimit == 50

VARIABLES categories, pictures, files, pending, req,
          nextCat, nextPic, nextFile, now, ops, faults

vars == <<categories, pictures, files, pending, req,
          nextCat, nextPic, nextFile, now, ops, faults>>

Reqs == 1..NumReqs

\* ---- strings: sequences of one-character strings -------------------------
toLowerCaseChar(c) ==
  CASE c = "A" -> "a"
    [] c = "B" -> "b"
    [] c = "D" -> "d"
    [] c = "P" -> "p"
    [] OTHER -> c

toLowerCase(s) == [i \in 1..Len(s) |-> toLowerCaseChar(s[i])]

RECURSIVE trimStart(_)
trimStart(s) ==
  IF Len(s) > 0 /\ s[1] = " " THEN trimStart(Tail(s)) ELSE s

RECURSIVE trimEnd(_)
trimEnd(s) ==
  IF Len(s) > 0 /\ s[Len(s)] = " " THEN trimEnd(SubSeq(s, 1, Len(s) - 1)) ELSE s

trim(s) == trimEnd(trimStart(s))

\* String.prototype.split with a one-character separator: "" gives [""],
\* "a," gives ["a", ""].
RECURSIVE split(_, _)
split(s, sep) ==
  IF \E i \in 1..Len(s) : s[i] = sep
  THEN LET i == CHOOSE k \in 1..Len(s) :
                  s[k] = sep /\ \A j \in 1..(k - 1) : s[j] # sep
       IN <<SubSeq(s, 1, i - 1)>> \o split(SubSeq(s, i + 1, Len(s)), sep)
  ELSE <<s>>

\* getExtension throws when the name holds no dot.
getExtensionThrows(name) == Len(split(name, ".")) = 1

getExtension(name) ==
  LET parts == split(name, ".") IN parts[Len(parts)]

\* parseMatches is applied to req.body.matches before any check; a field
\* that is absent is undefined, and undefined.split throws a TypeError.
parseMatchesThrows(m) == ~m.def

\* parseMatches without the trim of its entries.
parseMatchesUntrimmed(m) ==
  LET parts == split(m.str, ",")
  IN [i \in 1..Len(parts) |-> toLowerCase(parts[i])]

parseMatches(m) ==
  LET parts == split(m.str, ",")
  IN [i \in 1..Len(parts) |-> toLowerCase(trim(parts[i]))]

\* !matches: undefined and the empty string are falsy.
matchesFalsy(m) == ~m.def \/ m.str = <<>>

\* ---- paths ---------------------------------------------------------------
\* A file name is the name multer generated plus the suffix added on rename.
stagedFilename(h) == [base |-> h, suffix |-> <<>>]

targetFilename(image) ==
  [base |-> image.filename.base,
   suffix |-> image.filename.suffix \o <<".">>
                \o toLowerCase(getExtension(image.originalname))]

uploadPath(filename) == <<"public", "uploads", filename>>

imageUrlOf(filename) == <<"uploads", filename>>

getLocalPath(url) == <<"public">> \o url

\* ---- requests ------------------------------------------------------------
NoImage == [present |-> FALSE, filename |-> stagedFilename(0), originalname |-> <<>>]

NoMatches == [def |-> FALSE, str |-> <<>>]

NoResp == [status |-> 0, err |-> "none", kind |-> "none", body |-> <<>>]

Resp(status, err, kind, body) ==
  [status |-> status, err |-> err, kind |-> kind, body |-> body]

IdleReq ==
  [op |-> "none", id |-> 0, title |-> "", matches |-> NoMatches, image |-> NoImage,
   limit |-> 0, bucket |-> 0, latest |-> <<>>, lookup |-> "unset",
   tasks |-> {}, resp |-> NoResp]

Task(t) == [t |-> t, path |-> <<>>]

UnlinkTask(t, path) == [t |-> t, path |-> path]

\* A slot takes a new request once the handler of the previous one has no
\* call outstanding.
Free(r) ==
  /\ req[r].tasks = {}
  /\ \A q \in Reqs : q < r => req[q].tasks # {}
  /\ ops < MaxOps

\* A store or file-system call that fails for a reason outside the program
\* (the store is unavailable, the disk fails).
Fault == faults < MaxFaults /\ faults' = faults + 1

NoFault == UNCHANGED faults

\* res.send / res.status(..).send: the first response of a request stands.
respond(rq, resp) == IF rq.resp.status = 0 THEN resp ELSE rq.resp

\* ---- inputs --------------------------------------------------------------
Titles == {"t"}

OriginalNames == {<<"a">>, <<"a", ".", "P">>}

MatchesInputs ==
  {NoMatches,
   [def |-> TRUE, str |-> <<>>],
   [def |-> TRUE, str |-> <<"D", ",", " ", "P", " ", ",", "c">>]}

\* upload.single('image'): the part is absent, or multer has written it to
\* the upload directory under a generated name.
Uploads ==
  {NoImage} \cup
  {[present |-> TRUE, filename |-> stagedFilename(nextFile), originalname |-> n] :
      n \in OriginalNames}

afterUpload(image) ==
  IF image.present THEN files \cup {uploadPath(image.filename)} ELSE files

Limits == (0 - 1)..MaxLimit

\* ---- the stored state before the first request ---------------------------
seedFilename(h) == [base |-> h, suffix |-> <<".", "p">>]

InitWith(n) ==
  /\ categories = [c \in {1} |->
        [title |-> "t", imageUrl |-> imageUrlOf(seedFilename(1)), dateAdded |-> 1]]
  /\ pictures = [p \in 1..n |->
        [categoryId |-> 1, matches |-> <<<<"a">>>>,
         imageUrl |-> imageUrlOf(seedFilename(p + 1)), dateAdded |-> p + 1]]
  /\ files = {uploadPath(seedFilename(h)) : h \in 1..(n + 1)}
  /\ pending = {}
  /\ req = [r \in Reqs |-> IdleReq]
  /\ nextCat = 2
  /\ nextPic = n + 1
  /\ nextFile = n + 2
  /\ now = n + 2
  /\ ops = 0
  /\ faults = 0

Init == InitWith(SeedPics)

\* ---- POST /categories ----------------------------------------------------
\* Synchronous part: image.filename throws when no file was sent and
\* getExtension throws on a name without a dot; express answers a
\* synchronous throw with 500.  Otherwise fs.rename is issued.
CreateCategoryReq(r) ==
  /\ Free(r)
  /\ \E image \in Uploads, title \in Titles :
       LET rq == [IdleReq EXCEPT !.op = "createCategory", !.image = image,
                                 !.title = title]
       IN /\ files' = afterUpload(image)
          /\ nextFile' = IF image.present THEN nextFile + 1 ELSE nextFile
          /\ req' = [req EXCEPT ![r] =
               IF ~image.present
               THEN [rq EXCEPT !.resp = Resp(500, "TypeError", "error", <<>>)]
               ELSE IF getExtensionThrows(image.originalname)
               THEN [rq EXCEPT !.resp = Resp(500, "UnknownFileType", "error", <<>>)]
               ELSE [rq EXCEPT !.tasks = {Task("rename")}]]
  /\ ops' = ops + 1
  /\ UNCHANGED <<categories, pictures, pending, nextCat, nextPic, now, faults>>

\* fs.rename callback: on success the category is constructed, save() is
\* issued without waiting for it, and the category is sent.
CreateCategoryRename(r) ==
  /\ req[r].op = "createCategory"
  /\ Task("rename") \in req[r].tasks
  /\ LET rq == [req[r] EXCEPT !.tasks = {}]
         target == targetFilename(rq.image)
     IN \/ /\ uploadPath(rq.image.filename) \in files
           /\ NoFault
           /\ files' = (files \ {uploadPath(rq.image.filename)}) \cup {uploadPath(target)}
           /\ pending' = pending \cup
                {[kind |-> "saveCategory", id |-> nextCat,
                  doc |-> [title |-> rq.title, imageUrl |-> imageUrlOf(target),
                           dateAdded |-> now]]}
           /\ nextCat' = nextCat + 1
           /\ now' = now + 1
           /\ req' = [req EXCEPT ![r] =
                [rq EXCEPT !.resp = Resp(200, "none", "category", <<nextCat>>)]]
        \/ /\ req' = [req EXCEPT ![r] =
                [rq EXCEPT !.resp = Resp(500, "IOError", "error", <<>>)]]
           /\ Fault
           /\ UNCHANGED <<files, pending, nextCat, now>>
  /\ UNCHANGED <<categories, pictures, nextPic, nextFile, ops>>

\* ---- POST /pictures ------------------------------------------------------
\* Synchronous part: parseMatches runs first and throws on an absent field
\* (express answers 500); then a missing image or falsy matches gives 400;
\* otherwise Category.findById is issued.
createPictureReq(r, uploads, matchesInputs, categoryIds) ==
  /\ Free(r)
  /\ \E image \in uploads, matches \in matchesInputs, categoryId \in categoryIds :
       LET rq == [IdleReq EXCEPT !.op = "createPicture", !.image = image,
                                 !.matches = matches, !.id = categoryId]
       IN /\ files' = afterUpload(image)
          /\ nextFile' = IF image.present THEN nextFile + 1 ELSE nextFile
          /\ req' = [req EXCEPT ![r] =
               IF parseMatchesThrows(matches)
               THEN [rq EXCEPT !.resp = Resp(500, "TypeError", "error", <<>>)]
               ELSE IF ~image.present \/ matchesFalsy(matches)
               THEN [rq EXCEPT !.resp = Resp(400, "MissingField", "status", <<>>)]
               ELSE [rq EXCEPT !.tasks = {Task("findCategory")}]]
  /\ ops' = ops + 1
  /\ UNCHANGED <<categories, pictures, pending, nextCat, nextPic, now, faults>>

CreatePictureReq(r) == createPictureReq(r, Uploads, MatchesInputs, 1..nextCat)

\* Continuation of Category.findById.  A throw of getExtension inside the
\* fulfilment callback rejects the promise then() returns, which has no
\* handler: no response is sent.
createPictureFound(rq) ==
  IF getExtensionThrows(rq.image.originalname)
  THEN [rq EXCEPT !.lookup = "found"]
  ELSE [rq EXCEPT !.lookup = "found", !.tasks = {Task("rename")}]

\* A handler that does not stop on a missing category goes on to the rename.
createPictureAbsentRenames(rq) ==
  [rq EXCEPT !.lookup = "absent", !.tasks = {Task("rename")}]

createPictureAbsent(rq) ==
  [rq EXCEPT !.lookup = "absent",
             !.resp = Resp(400, "InvalidReference", "error", <<>>)]

CreatePictureFind(r) ==
  /\ req[r].op = "createPicture"
  /\ Task("findCategory") \in req[r].tasks
  /\ LET rq == [req[r] EXCEPT !.tasks = {}]
     IN \/ /\ req' = [req EXCEPT ![r] =
                IF rq.id \in DOMAIN categories
                THEN createPictureFound(rq)
                ELSE createPictureAbsent(rq)]
           /\ NoFault
        \/ /\ req' = [req EXCEPT ![r] =
                [rq EXCEPT !.lookup = "error",
                           !.resp = Resp(500, "ServerError", "error", <<>>)]]
           /\ Fault
  /\ UNCHANGED <<categories, pictures, files, pending,
                 nextCat, nextPic, nextFile, now, ops>>

\* Continuation of fsRenameLocal: the picture is constructed, save() is
\* issued without waiting for it, and the picture is sent.
CreatePictureRename(r) ==
  /\ req[r].op = "createPicture"
  /\ Task("rename") \in req[r].tasks
  /\ LET rq == [req[r] EXCEPT !.tasks = {}]
         target == targetFilename(rq.image)
     IN \/ /\ uploadPath(rq.image.filename) \in files
           /\ NoFault
           /\ files' = (files \ {uploadPath(rq.image.filename)}) \cup {uploadPath(target)}
           /\ pending' = pending \cup
                {[kind |-> "savePicture", id |-> nextPic,
                  doc |-> [categoryId |-> rq.id, matches |-> parseMatches(rq.matches),
                           imageUrl |-> imageUrlOf(target), dateAdded |-> now]]}
           /\ nextPic' = nextPic + 1
           /\ now' = now + 1
           /\ req' = [req EXCEPT ![r] =
                [rq EXCEPT !.resp = Resp(200, "none", "picture", <<nextPic>>)]]
        \/ /\ req' = [req EXCEPT ![r] =
                [rq EXCEPT !.resp = Resp(500, "IOError", "error", <<>>)]]
           /\ Fault
           /\ UNCHANGED <<files, pending, nextPic, now>>
  /\ UNCHANGED <<categories, pictures, nextCat, nextFile, ops>>

\* ---- POST /pictures/:id --------------------------------------------------
\* Promise.all: the first rejection answers; fulfilment of every call
\* answers with success.
joined(rq, ok) == IF rq.tasks = {} THEN [rq EXCEPT !.resp = respond(rq, ok)] ELSE rq

rejected(rq, err) == [rq EXCEPT !.resp = respond(rq, err)]

updatePictureReq(r, uploads, matchesInputs, ids) ==
  /\ Free(r)
  /\ \E image \in uploads, matches \in matchesInputs, id \in ids :
       LET rq == [IdleReq EXCEPT !.op = "updatePicture", !.image = image,
                                 !.matches = matches, !.id = id]
       IN /\ files' = afterUpload(image)
          /\ nextFile' = IF image.present THEN nextFile + 1 ELSE nextFile
          /\ req' = [req EXCEPT ![r] =
               IF parseMatchesThrows(matches)
               THEN [rq EXCEPT !.resp = Resp(500, "TypeError", "error", <<>>)]
               ELSE IF matchesFalsy(matches)
               THEN [rq EXCEPT !.resp = Resp(400, "MissingField", "error", <<>>)]
               ELSE IF ~image.present
               THEN [rq EXCEPT !.tasks = {Task("update")}]
               ELSE IF getExtensionThrows(image.originalname)
               THEN [rq EXCEPT !.resp = Resp(500, "UnknownFileType", "error", <<>>)]
               ELSE [rq EXCEPT !.tasks = {Task("rename"), Task("update")}]]
  /\ ops' = ops + 1
  /\ UNCHANGED <<categories, pictures, pending, nextCat, nextPic, now, faults>>

UpdatePictureReq(r) == updatePictureReq(r, Uploads, MatchesInputs, 1..nextPic)

\* A patch that leaves the imageUrl out.
patchedMatchesOnly(doc, rq) ==
  [doc EXCEPT !.matches = parseMatches(rq.matches)]

\* A patch that adds the new tags to the stored ones instead of setting them.
patchedAppends(doc, rq) ==
  IF rq.image.present
  THEN [doc EXCEPT !.matches = @ \o parseMatches(rq.matches),
                   !.imageUrl = imageUrlOf(targetFilename(rq.image))]
  ELSE [doc EXCEPT !.matches = @ \o parseMatches(rq.matches)]

\* The patch findByIdAndUpdate sends: matches alone, or matches and imageUrl.
patched(doc, rq) ==
  IF rq.image.present
  THEN [doc EXCEPT !.matches = parseMatches(rq.matches),
                   !.imageUrl = imageUrlOf(targetFilename(rq.image))]
  ELSE [doc EXCEPT !.matches = parseMatches(rq.matches)]

\* Picture.findByIdAndUpdate: an id that matches no document updates nothing
\* and resolves with null.
UpdatePictureUpdate(r) ==
  /\ req[r].op = "updatePicture"
  /\ Task("update") \in req[r].tasks
  /\ LET rq == [req[r] EXCEPT !.tasks = @ \ {Task("update")}]
         found == rq.id \in DOMAIN pictures
     IN \/ /\ NoFault
           /\ pictures' = IF found
                          THEN [pictures EXCEPT ![rq.id] = patched(@, rq)]
                          ELSE pictures
           /\ req' = [req EXCEPT ![r] =
                IF rq.image.present
                THEN joined(rq, Resp(200, "none", "message", <<>>))
                ELSE joined(rq, Resp(200, "none", "picture",
                                     IF found THEN <<rq.id>> ELSE <<>>))]
        \/ /\ req' = [req EXCEPT ![r] =
                IF rq.image.present
                THEN rejected(rq, Resp(500, "StoreError", "error", <<>>))
                ELSE rejected(rq, Resp(500, "UpdateFailed", "error", <<>>))]
           /\ Fault
           /\ UNCHANGED pictures
  /\ UNCHANGED <<categories, files, pending, nextCat, nextPic, nextFile, now, ops>>

UpdatePictureRename(r) ==
  /\ req[r].op = "updatePicture"
  /\ Task("rename") \in req[r].tasks
  /\ LET rq == [req[r] EXCEPT !.tasks = @ \ {Task("rename")}]
         target == targetFilename(rq.image)
     IN \/ /\ uploadPath(rq.image.filename) \in files
           /\ NoFault
           /\ files' = (files \ {uploadPath(rq.image.filename)}) \cup {uploadPath(target)}
           /\ req' = [req EXCEPT ![r] =
                joined(rq, Resp(200, "none", "message", <<>>))]
        \/ /\ req' = [req EXCEPT ![r] =
                rejected(rq, Resp(500, "IOError", "error", <<>>))]
           /\ Fault
           /\ UNCHANGED files
  /\ UNCHANGED <<categories, pictures, pending, nextCat, nextPic, nextFile, now, ops>>

\* ---- DELETE /pictures/:id ------------------------------------------------
deletePictureReq(r, ids) ==
  /\ Free(r)
  /\ \E id \in ids :
       req' = [req EXCEPT ![r] =
                 [IdleReq EXCEPT !.op = "deletePicture", !.id = id,
                                 !.tasks = {Task("findByIdAndRemove")}]]
  /\ ops' = ops + 1
  /\ UNCHANGED <<categories, pictures, files, pending,
                 nextCat, nextPic, nextFile, now, faults>>

DeletePictureReq(r) == deletePictureReq(r, 1..nextPic)

\* A removal that takes the picture's file along with the record.
DeletePictureRemoveWithFile(r) ==
  /\ req[r].op = "deletePicture"
  /\ Task("findByIdAndRemove") \in req[r].tasks
  /\ LET rq == [req[r] EXCEPT !.tasks = {}]
     IN \/ /\ NoFault
           /\ pictures' = [q \in DOMAIN pictures \ {rq.id} |-> pictures[q]]
           /\ files' = IF rq.id \in DOMAIN pictures
                       THEN files \ {getLocalPath(pictures[rq.id].imageUrl)}
                       ELSE files
           /\ req' = [req EXCEPT ![r] =
                [rq EXCEPT !.resp = Resp(200, "none", "message", <<>>)]]
        \/ /\ req' = [req EXCEPT ![r] =
                [rq EXCEPT !.resp = Resp(500, "StoreError", "error", <<>>)]]
           /\ Fault
           /\ UNCHANGED <<pictures, files>>
  /\ UNCHANGED <<categories, pending, nextCat, nextPic, nextFile, now, ops>>

\* Picture.findByIdAndRemove removes the record; no file is touched.
DeletePictureRemove(r) ==
  /\ req[r].op = "deletePicture"
  /\ Task("findByIdAndRemove") \in req[r].tasks
  /\ LET rq == [req[r] EXCEPT !.tasks = {}]
     IN \/ /\ NoFault
           /\ pictures' = [q \in DOMAIN pictures \ {rq.id} |-> pictures[q]]
           /\ req' = [req EXCEPT ![r] =
                [rq EXCEPT !.resp = Resp(200, "none", "message", <<>>)]]
        \/ /\ req' = [req EXCEPT ![r] =
                [rq EXCEPT !.resp = Resp(500, "StoreError", "error", <<>>)]]
           /\ Fault
           /\ UNCHANGED pictures
  /\ UNCHANGED <<categories, files, pending, nextCat, nextPic, nextFile, now, ops>>

\* ---- DELETE /categories/:id ----------------------------------------------
\* Both lookups are issued at once.
DeleteCategoryReq(r) ==
  /\ Free(r)
  /\ \E id \in 1..nextCat :
       req' = [req EXCEPT ![r] =
                 [IdleReq EXCEPT !.op = "deleteCategory", !.id = id,
                                 !.tasks = {Task("findPictures"), Task("findCategory")}]]
  /\ ops' = ops + 1
  /\ UNCHANGED <<categories, pictures, files, pending,
                 nextCat, nextPic, nextFile, now, faults>>

\* Continuation of Picture.find: for every picture found, remove() is issued
\* without waiting for it and the unlink of its file is issued and joined.
picturesOf(categoryId) ==
  {p \in DOMAIN pictures : pictures[p].categoryId = categoryId}

DeleteCategoryFindPictures(r) ==
  /\ req[r].op = "deleteCategory"
  /\ Task("findPictures") \in req[r].tasks
  /\ LET rq == [req[r] EXCEPT !.tasks = @ \ {Task("findPictures")}]
         found == picturesOf(rq.id)
     IN \/ /\ NoFault
           /\ pending' = pending \cup
                {[kind |-> "removePicture", id |-> p, doc |-> pictures[p]] : p \in found}
           /\ req' = [req EXCEPT ![r] =
                joined([rq EXCEPT !.tasks = @ \cup
                          {UnlinkTask("unlinkPicture", getLocalPath(pictures[p].imageUrl)) :
                              p \in found}],
                       Resp(200, "none", "message", <<>>))]
        \/ /\ req' = [req EXCEPT ![r] =
                rejected(rq, Resp(500, "StoreError", "error", <<>>))]
           /\ Fault
           /\ UNCHANGED pending
  /\ UNCHANGED <<categories, pictures, files, nextCat, nextPic, nextFile, now, ops>>

\* Continuation of Category.findById: when the category exists, remove() is
\* issued without waiting for it and the unlink of its file is issued.
DeleteCategoryFindCategory(r) ==
  /\ req[r].op = "deleteCategory"
  /\ Task("findCategory") \in req[r].tasks
  /\ LET rq == [req[r] EXCEPT !.tasks = @ \ {Task("findCategory")}]
         found == rq.id \in DOMAIN categories
     IN \/ /\ found
           /\ NoFault
           /\ pending' = pending \cup
                {[kind |-> "removeCategory", id |-> rq.id, doc |-> categories[rq.id]]}
           /\ req' = [req EXCEPT ![r] =
                [rq EXCEPT !.lookup = "found", !.tasks = @ \cup
                   {UnlinkTask("unlinkCategory", getLocalPath(categories[rq.id].imageUrl))}]]
        \/ /\ ~found
           /\ NoFault
           /\ req' = [req EXCEPT ![r] =
                joined([rq EXCEPT !.lookup = "absent"],
                       Resp(200, "none", "message", <<>>))]
           /\ UNCHANGED pending
        \/ /\ req' = [req EXCEPT ![r] =
                rejected([rq EXCEPT !.lookup = "error"],
                         Resp(500, "StoreError", "error", <<>>))]
           /\ Fault
           /\ UNCHANGED pending
  /\ UNCHANGED <<categories, pictures, files, nextCat, nextPic, nextFile, now, ops>>

\* An unlink that takes a file that is not there for removed.
DeleteCategoryUnlinkTolerant(r) ==
  /\ req[r].op = "deleteCategory"
  /\ \E t \in req[r].tasks :
       /\ t.t \in {"unlinkPicture", "unlinkCategory"}
       /\ LET rq == [req[r] EXCEPT !.tasks = @ \ {t}]
          IN \/ /\ NoFault
                /\ files' = files \ {t.path}
                /\ req' = [req EXCEPT ![r] =
                     joined(rq, Resp(200, "none", "message", <<>>))]
             \/ /\ t.path \in files
                /\ req' = [req EXCEPT ![r] =
                     rejected(rq, Resp(500, "IOError", "error", <<>>))]
                /\ Fault
                /\ UNCHANGED files
  /\ UNCHANGED <<categories, pictures, pending, nextCat, nextPic, nextFile, now, ops>>

\* fsRemove: fs.unlink removes the file, or fails (always when the file is
\* not there).
DeleteCategoryUnlink(r) ==
  /\ req[r].op = "deleteCategory"
  /\ \E t \in req[r].tasks :
       /\ t.t \in {"unlinkPicture", "unlinkCategory"}
       /\ LET rq == [req[r] EXCEPT !.tasks = @ \ {t}]
          IN \/ /\ t.path \in files
                /\ NoFault
                /\ files' = files \ {t.path}
                /\ req' = [req EXCEPT ![r] =
                     joined(rq, Resp(200, "none", "message", <<>>))]
             \/ /\ req' = [req EXCEPT ![r] =
                     rejected(rq, Resp(500, "IOError", "error", <<>>))]
                /\ IF t.path \in files THEN Fault ELSE NoFault
                /\ UNCHANGED files
  /\ UNCHANGED <<categories, pictures, pending, nextCat, nextPic, nextFile, now, ops>>

\* ---- GET /categories/:categoryId/:limit ----------------------------------
\* utils/randomUtils is not part of the sources at hand: an integer of
\* [min, floor(max)], and min when that interval is empty.
getRandomInt(min, max) == min..(IF max < min THEN min ELSE max)

\* getRandomInt(1, limit / 2); \div rounds down as floor does.
latestBucketSizes(limit) == getRandomInt(1, limit \div 2)

RECURSIVE kSubsets(_, _)
kSubsets(S, k) ==
  IF k = 0 THEN {{}}
  ELSE UNION {{T \cup {x} : T \in kSubsets({y \in S : y > x}, k - 1)} : x \in S}

RECURSIVE seqOf(_)
seqOf(S) ==
  IF S = {} THEN <<>>
  ELSE LET x == CHOOSE y \in S : \A z \in S : y <= z
       IN <<x>> \o seqOf(S \ {x})

\* { $sort: { dateAdded: -1 } }, { $limit: n }
newest(S, n) ==
  IF Cardinality(S) <= n THEN S ELSE
  {p \in S : Cardinality({q \in S : pictures[q].dateAdded > pictures[p].dateAdded}) < n}

\* A skip that is one short.
olderSkipsOneLess(S, n) == S \ newest(S, n - 1)

\* { $sort: { dateAdded: -1 } }, { $skip: n }
older(S, n) == S \ newest(S, n)

\* { $sample: { size } }: the documents a random choice of that size can give.
sampleSets(S, size) ==
  kSubsets(S, IF size < Cardinality(S) THEN size ELSE Cardinality(S))

\* The array an aggregation resolves with: one object per document.
documents(S) ==
  LET ids == seqOf(S) IN [i \in 1..Len(ids) |-> [obj |-> i, _id |-> ids[i]]]

\* Array.from(new Set(array)): a Set of objects keeps one entry per object.
RECURSIVE arrayFromSet(_)
arrayFromSet(a) ==
  IF a = <<>> THEN <<>>
  ELSE LET init == SubSeq(a, 1, Len(a) - 1)
           last == a[Len(a)]
       IN IF \E i \in 1..Len(init) : init[i].obj = last.obj
          THEN arrayFromSet(init)
          ELSE arrayFromSet(init) \o <<last>>

idsOf(a) == [i \in 1..Len(a) |-> a[i]._id]

elems(a) == {a[i] : i \in 1..Len(a)}

\* Synchronous part: the limit is read, latestBucketSize is drawn and the
\* first aggregation is issued.
sampleReq(r, categoryIds) ==
  /\ Free(r)
  /\ Cardinality({q \in Reqs : req[q].op = "sample"}) < MaxSamplers
  /\ \E categoryId \in categoryIds, limit \in Limits :
       \E latestBucketSize \in latestBucketSizes(limit) :
         req' = [req EXCEPT ![r] =
                   [IdleReq EXCEPT !.op = "sample", !.id = categoryId,
                                   !.limit = limit, !.bucket = latestBucketSize,
                                   !.tasks = {Task("aggregateLatest")}]]
  /\ ops' = ops + 1
  /\ UNCHANGED <<categories, pictures, files, pending,
                 nextCat, nextPic, nextFile, now, faults>>

SampleReq(r) == sampleReq(r, 1..nextCat)

\* First aggregation and its continuation: latestSet is kept and the second
\* aggregation is issued.
latestResults(rq) ==
  {documents(T) :
     T \in sampleSets(newest(picturesOf(rq.id), latestItemsLimit), rq.bucket)}

SampleLatest(r) ==
  /\ req[r].op = "sample"
  /\ Task("aggregateLatest") \in req[r].tasks
  /\ \/ /\ \E latest \in latestResults(req[r]) :
             req' = [req EXCEPT ![r] =
                       [@ EXCEPT !.latest = idsOf(arrayFromSet(latest)),
                                 !.tasks = {Task("aggregateRest")}]]
        /\ NoFault
     \/ /\ req' = [req EXCEPT ![r] =
                     [@ EXCEPT !.tasks = {},
                               !.resp = Resp(500, "StoreError", "error", <<>>)]]
        /\ Fault
  /\ UNCHANGED <<categories, pictures, files, pending,
                 nextCat, nextPic, nextFile, now, ops>>

\* Second aggregation: sampled from behind the newest latestItemsLimit, then
\* filtered by { _id: { $nin: latestIds } }.
restItemsCount(rq) == rq.limit - Len(rq.latest)

\* The second aggregation without its $nin stage.
restResultsUnfiltered(rq) ==
  {documents(T) :
     T \in sampleSets(older(picturesOf(rq.id), latestItemsLimit), restItemsCount(rq))}

restResults(rq) ==
  {documents({p \in T : p \notin elems(rq.latest)}) :
     T \in sampleSets(older(picturesOf(rq.id), latestItemsLimit), restItemsCount(rq))}

\* The store refuses a negative $sample size: the aggregation rejects.
SampleRest(r) ==
  /\ req[r].op = "sample"
  /\ Task("aggregateRest") \in req[r].tasks
  /\ \/ /\ restItemsCount(req[r]) >= 0
        /\ \E rest \in restResults(req[r]) :
             req' = [req EXCEPT ![r] =
                       [@ EXCEPT !.tasks = {},
                                 !.resp = Resp(200, "none", "pictures",
                                               req[r].latest \o idsOf(rest))]]
        /\ NoFault
     \/ /\ restItemsCount(req[r]) < 0
        /\ req' = [req EXCEPT ![r] =
                     [@ EXCEPT !.tasks = {},
                               !.resp = Resp(500, "StoreError", "error", <<>>)]]
        /\ NoFault
     \/ /\ req' = [req EXCEPT ![r] =
                     [@ EXCEPT !.tasks = {},
                               !.resp = Resp(500, "StoreError", "error", <<>>)]]
        /\ Fault
  /\ UNCHANGED <<categories, pictures, files, pending,
                 nextCat, nextPic, nextFile, now, ops>>

\* ---- calls nobody waits for ----------------------------------------------
\* save() and remove() issued without a continuation: the store applies the
\* call or fails it, and the outcome reaches no handler.
applyPending(p) ==
  CASE p.kind = "saveCategory" ->
         /\ categories' = [c \in DOMAIN categories \cup {p.id} |->
                             IF c = p.id THEN p.doc ELSE categories[c]]
         /\ UNCHANGED pictures
    [] p.kind = "savePicture" ->
         /\ pictures' = [q \in DOMAIN pictures \cup {p.id} |->
                             IF q = p.id THEN p.doc ELSE pictures[q]]
         /\ UNCHANGED categories
    [] p.kind = "removeCategory" ->
         /\ categories' = [c \in DOMAIN categories \ {p.id} |-> categories[c]]
         /\ UNCHANGED pictures
    [] p.kind = "removePicture" ->
         /\ pictures' = [q \in DOMAIN pictures \ {p.id} |-> pictures[q]]
         /\ UNCHANGED categories

PendingDone(p) ==
  /\ p \in pending
  /\ pending' = pending \ {p}
  /\ \/ applyPending(p) /\ NoFault
     \/ UNCHANGED <<categories, pictures>> /\ Fault
  /\ UNCHANGED <<files, req, nextCat, nextPic, nextFile, now, ops>>

Next ==
  \/ \E r \in Reqs : CreateCategoryReq(r)
  \/ \E r \in Reqs : CreateCategoryRename(r)
  \/ \E r \in Reqs : CreatePictureReq(r)
  \/ \E r \in Reqs : CreatePictureFind(r)
  \/ \E r \in Reqs : CreatePictureRename(r)
  \/ \E r \in Reqs : UpdatePictureReq(r)
  \/ \E r \in Reqs : UpdatePictureUpdate(r)
  \/ \E r \in Reqs : UpdatePictureRename(r)
  \/ \E r \in Reqs : DeletePictureReq(r)
  \/ \E r \in Reqs : DeletePictureRemove(r)
  \/ \E r \in Reqs : DeleteCategoryReq(r)
  \/ \E r \in Reqs : DeleteCategoryFindPictures(r)
  \/ \E r \in Reqs : DeleteCategoryFindCategory(r)
  \/ \E r \in Reqs : DeleteCategoryUnlink(r)
  \/ \E r \in Reqs : SampleReq(r)
  \/ \E r \in Reqs : SampleLatest(r)
  \/ \E r \in Reqs : SampleRest(r)
  \/ \E p \in pending : PendingDone(p)

Spec == Init /\ [][Next]_vars

\* The sampler next to picture creation and deletion, over a category that
\* holds latestItemsLimit pictures.
InitSample == InitWith(latestItemsLimit)

\* Requests of the sampler specification: the seeded category is sampled,
\* well-formed pictures are added to it, and its oldest and newest seeded
\* pictures are deleted.
WellFormedUploads == {u \in Uploads : u.present /\ ~getExtensionThrows(u.originalname)}

WellFormedMatches == {m \in MatchesInputs : ~matchesFalsy(m)}

SampleCategoryReq(r) == sampleReq(r, {1})

CreateSampledPictureReq(r) ==
  createPictureReq(r, WellFormedUploads, WellFormedMatches, {1})

DeleteSampledPictureReq(r) == deletePictureReq(r, {1, latestItemsLimit})

NextSample ==
  \/ \E r \in Reqs : SampleCategoryReq(r)
  \/ \E r \in Reqs : SampleLatest(r)
  \/ \E r \in Reqs : SampleRest(r)
  \/ \E r \in Reqs : CreateSampledPictureReq(r)
  \/ \E r \in Reqs : CreatePictureFind(r)
  \/ \E r \in Reqs : CreatePictureRename(r)
  \/ \E r \in Reqs : DeleteSampledPictureReq(r)
  \/ \E r \in Reqs : DeletePictureRemove(r)
  \/ \E p \in pending : PendingDone(p)

SpecSample == InitSample /\ [][NextSample]_vars

\* Updates of the seeded pictures with well-formed requests: a second tag
\* list (with a trailing comma) tells two updates of one picture apart.
UpdateMatchesInputs ==
  WellFormedMatches \cup {[def |-> TRUE, str |-> <<"B", ",">>]}

UpdateUploads == {NoImage} \cup WellFormedUploads

UpdateSeededPictureReq(r) ==
  updatePictureReq(r, UpdateUploads, UpdateMatchesInputs, 1..nextPic)

NextUpdate ==
  \/ \E r \in Reqs : UpdateSeededPictureReq(r)
  \/ \E r \in Reqs : UpdatePictureUpdate(r)
  \/ \E r \in Reqs : UpdatePictureRename(r)

SpecUpdate == Init /\ [][NextUpdate]_vars

\* ---- claims ---------------------------------------------------------------
blobOf(url) == getLocalPath(url) \in files

noDuplicates(a) == \A i, j \in 1..Len(a) : a[i] = a[j] => i = j

\* C1: every Picture record in the store has an imageUrl whose file is in the
\* upload directory, in every reachable state.
C1_PictureBlobPresent ==
  \A p \in DOMAIN pictures : blobOf(pictures[p].imageUrl)

\* C2: when deleteCategory(id), the only request so far, has answered with
\* success, the category record is gone, no picture of the category is left
\* and the files of the category and of its pictures are gone.
seedFilesOf(categoryId) ==
  IF categoryId = 1
  THEN {uploadPath(seedFilename(h)) : h \in 1..(SeedPics + 1)}
  ELSE {}

C2_DeleteCategoryLeavesNothing ==
  \A r \in Reqs :
    (ops = 1 /\ req[r].op = "deleteCategory" /\ req[r].resp.status = 200)
      => /\ req[r].id \notin DOMAIN categories
         /\ picturesOf(req[r].id) = {}
         /\ seedFilesOf(req[r].id) \cap files = {}

\* C3: a batch the sampler sends for a limit >= 0 holds no picture twice and
\* at most limit pictures, whatever is inserted or deleted between its two
\* aggregations.
C3_BatchDistinctAndBounded ==
  \A r \in Reqs :
    (req[r].op = "sample" /\ req[r].resp.status = 200 /\ req[r].limit >= 0)
      => /\ noDuplicates(req[r].resp.body)
         /\ Len(req[r].resp.body) <= req[r].limit

\* A batch whose backfill part is not empty: the category has grown past
\* latestItemsLimit pictures before the second aggregation.
C3_Witness ==
  \E r \in Reqs :
    /\ req[r].op = "sample"
    /\ req[r].resp.status = 200
    /\ Len(req[r].resp.body) > Len(req[r].latest)

C5_UnknownFileTypeSurfaced ==
  \A r \in Reqs :
    (/\ req[r].op = "createPicture"
     /\ req[r].lookup = "found"
     /\ getExtensionThrows(req[r].image.originalname)
     /\ req[r].tasks = {})
      => req[r].resp.err = "UnknownFileType"

\* C6: at the step in which createCategory or createPicture answers with a
\* record, that record is in the store.
C6_SuccessMeansCommitted ==
  [][\A r \in Reqs :
       (req[r].resp.status = 0 /\ req'[r].resp.status = 200)
         => /\ req'[r].op = "createCategory"
                 => req'[r].resp.body[1] \in DOMAIN categories'
            /\ req'[r].op = "createPicture"
                 => req'[r].resp.body[1] \in DOMAIN pictures']_vars

\* C7: every Category record in the store has an imageUrl whose file is in
\* the upload directory, in every reachable state.
C7_CategoryBlobPresent ==
  \A c \in DOMAIN categories : blobOf(categories[c].imageUrl)

\* C8: a sampler request, the only request so far, that ends with fewer
\* matching pictures than its limit and with no outside failure, has answered
\* with every matching picture, each once.
C8_SmallPopulationReturnedWhole ==
  \A r \in Reqs :
    (/\ ops = 1 /\ faults = 0
     /\ req[r].op = "sample" /\ req[r].tasks = {}
     /\ Cardinality(picturesOf(req[r].id)) < req[r].limit)
      => /\ req[r].resp.status = 200
         /\ elems(req[r].resp.body) = picturesOf(req[r].id)
         /\ noDuplicates(req[r].resp.body)

\* C9: a sampler request with limit <= 0 that ends with no outside failure
\* has answered with success and the empty batch.
C9_NonPositiveLimitGivesEmpty ==
  \A r \in Reqs :
    (req[r].op = "sample" /\ req[r].tasks = {} /\ req[r].limit <= 0 /\ faults = 0)
      => /\ req[r].resp.status = 200
         /\ req[r].resp.body = <<>>

\* C10: createPicture and updatePicture with matches absent or empty, and
\* createPicture with no image, are answered 400 MissingField.
C10_MissingFieldAnswered ==
  \A r \in Reqs :
    (\/ /\ req[r].op \in {"createPicture", "updatePicture"}
        /\ matchesFalsy(req[r].matches)
     \/ /\ req[r].op = "createPicture"
        /\ ~req[r].image.present)
      => /\ req[r].resp.status = 400
         /\ req[r].resp.err = "MissingField"

\* The tag lists the requests of the model carry, parsed by hand: "D, P ,c"
\* and "B,".
expectedMatches(str) ==
  CASE str = <<"D", ",", " ", "P", " ", ",", "c">> -> <<<<"d">>, <<"p">>, <<"c">>>>
    [] str = <<"B", ",">> -> <<<<"b">>, <<>>>>

ownUrl(rq) == imageUrlOf(targetFilename(rq.image))

seedUrl(p) == imageUrlOf(seedFilename(p + 1))

\* C11: the step in which the store applies an updatePicture without a new
\* image to an existing picture sets that picture's matches to the entries of
\* the text, split at commas, trimmed and lowercased, in order, answers with
\* the picture, and changes no other field, no other record and no file.
C11_MatchesOnlyUpdate ==
  [][\A r \in Reqs :
       (/\ UpdatePictureUpdate(r)
        /\ ~req[r].image.present
        /\ faults' = faults
        /\ req[r].id \in DOMAIN pictures)
         => /\ pictures' = [pictures EXCEPT ![req[r].id] =
                  [@ EXCEPT !.matches = expectedMatches(req[r].matches.str)]]
            /\ req'[r].resp = Resp(200, "none", "picture", <<req[r].id>>)
            /\ categories' = categories
            /\ files' = files
            /\ pending' = pending]_vars

C11_Witness ==
  \E r \in Reqs :
    /\ req[r].op = "updatePicture"
    /\ ~req[r].image.present
    /\ req[r].matches.str = <<"D", ",", " ", "P", " ", ",", "c">>
    /\ req[r].resp.status = 200
    /\ req[r].resp.body = <<req[r].id>>
    /\ req[r].id \in DOMAIN pictures
    /\ pictures[req[r].id].matches = <<<<"d">>, <<"p">>, <<"c">>>>

\* C14: an updatePicture with a new image on a seeded picture, the only
\* request so far, once both of its calls have completed: with no failure it
\* has answered success, the record carries the new imageUrl, and the new
\* file and the picture's previous file are both there; with exactly one
\* failure it has answered 500 and exactly one of the two effects (record
\* patched, file renamed) is in place.
C14_UpdateWithImage ==
  \A r \in Reqs :
    (/\ ops = 1
     /\ req[r].op = "updatePicture"
     /\ req[r].image.present
     /\ ~getExtensionThrows(req[r].image.originalname)
     /\ ~matchesFalsy(req[r].matches)
     /\ req[r].id \in 1..SeedPics
     /\ req[r].tasks = {})
      => LET p == req[r].id
             patchedNow == pictures[p].imageUrl = ownUrl(req[r])
         IN /\ faults = 0 =>
                 /\ req[r].resp.status = 200
                 /\ patchedNow
                 /\ pictures[p].matches = expectedMatches(req[r].matches.str)
                 /\ blobOf(ownUrl(req[r]))
                 /\ blobOf(seedUrl(p))
            /\ faults = 1 =>
                 /\ req[r].resp.status = 500
                 /\ patchedNow # blobOf(ownUrl(req[r]))

\* The rename failed and the patch of the record stayed.
C14_Witness ==
  \E r \in Reqs :
    /\ ops = 1
    /\ req[r].op = "updatePicture"
    /\ req[r].image.present
    /\ req[r].id \in 1..SeedPics
    /\ req[r].tasks = {}
    /\ faults = 1
    /\ req[r].resp.status = 500
    /\ pictures[req[r].id].imageUrl = ownUrl(req[r])
    /\ ~blobOf(ownUrl(req[r]))

\* C16: when two updatePicture requests on one existing picture were in
\* flight together and both have answered success, the picture's matches are
\* the parsed matches of one of them, and when both replaced the image the
\* record holds the matches and the imageUrl of the same request.
concurrentUpdates(r1, r2) ==
  /\ r1 # r2
  /\ ops = 2
  /\ req[r1].op = "updatePicture" /\ req[r2].op = "updatePicture"
  /\ req[r1].id = req[r2].id
  /\ req[r1].id \in DOMAIN pictures
  /\ req[r1].tasks = {} /\ req[r2].tasks = {}
  /\ req[r1].resp.status = 200 /\ req[r2].resp.status = 200

C16_LastWriteWinsWhole ==
  \A r1, r2 \in Reqs :
    concurrentUpdates(r1, r2)
      => LET doc == pictures[req[r1].id]
         IN /\ doc.matches \in {expectedMatches(req[r1].matches.str),
                                expectedMatches(req[r2].matches.str)}
            /\ (req[r1].image.present /\ req[r2].image.present)
                 => <<doc.matches, doc.imageUrl>> \in
                      {<<expectedMatches(req[q].matches.str), ownUrl(req[q])>> :
                          q \in {r1, r2}}

C16_Witness ==
  \E r1, r2 \in Reqs :
    /\ concurrentUpdates(r1, r2)
    /\ req[r1].image.present /\ req[r2].image.present
    /\ req[r1].matches # req[r2].matches
    /\ pictures[req[r1].id].imageUrl = ownUrl(req[r1])

\* The number of pictures of the category that are newer than picture p.
newerThan(p, categoryId) ==
  Cardinality({q \in picturesOf(categoryId) :
                 pictures[q].dateAdded > pictures[p].dateAdded})

\* C12: for a limit of at least 2 and a category of at least latestItemsLimit
\* pictures, the first aggregation yields only pictures of the category with
\* fewer than latestItemsLimit newer ones at the time it runs, and every
\* picture the second aggregation adds to the batch is a picture of the
\* category with at least latestItemsLimit newer ones at the time it runs.
C12_FreshFromWindowBackfillBehind ==
  [][\A r \in Reqs :
       (/\ req[r].op = "sample"
        /\ req[r].limit >= 2
        /\ Cardinality(picturesOf(req[r].id)) >= latestItemsLimit)
         => /\ (SampleLatest(r) /\ faults' = faults)
                 => \A i \in 1..Len(req'[r].latest) :
                      /\ req'[r].latest[i] \in picturesOf(req[r].id)
                      /\ newerThan(req'[r].latest[i], req[r].id) < latestItemsLimit
            /\ (SampleRest(r) /\ req'[r].resp.status = 200)
                 => \A i \in (Len(req[r].latest) + 1)..Len(req'[r].resp.body) :
                      /\ req'[r].resp.body[i] \in picturesOf(req[r].id)
                      /\ newerThan(req'[r].resp.body[i], req[r].id)
                           >= latestItemsLimit]_vars

\* A batch for a limit of at least 2 with a fresh part and a backfill part,
\* whose backfill picture is still stored behind the newest latestItemsLimit.
C12_Witness ==
  \E r \in Reqs :
    /\ req[r].op = "sample"
    /\ req[r].limit >= 2
    /\ req[r].resp.status = 200
    /\ Len(req[r].latest) >= 1
    /\ Len(req[r].resp.body) > Len(req[r].latest)
    /\ \A i \in (Len(req[r].latest) + 1)..Len(req[r].resp.body) :
         /\ req[r].resp.body[i] \in picturesOf(req[r].id)
         /\ newerThan(req[r].resp.body[i], req[r].id) >= latestItemsLimit

\* C13: when deleteCategory, the only request so far, and every call it
\* issued have finished and one of those calls failed, the request has been
\* answered with a failure.
C13_AnyFailureReported ==
  \A r \in Reqs :
    (/\ ops = 1
     /\ req[r].op = "deleteCategory"
     /\ req[r].tasks = {}
     /\ pending = {}
     /\ faults > 0)
      => req[r].resp.status = 500

\* C15: the step in which an unlink of deleteCategory completes on a file
\* that is no longer there answers the request with a failure (or leaves the
\* failure it has already answered) and changes no file.
C15_MissingBlobIsFailure ==
  [][\A r \in Reqs :
       (/\ req[r].op = "deleteCategory"
        /\ \E t \in req[r].tasks \ req'[r].tasks :
             /\ t.t \in {"unlinkPicture", "unlinkCategory"}
             /\ t.path \notin files)
         => /\ req'[r].resp.status = 500
            /\ req'[r].resp.kind = "error"
            /\ files' = files]_vars

\* Two deleteCategory requests on one category, no call failed on its own:
\* one has unlinked the files and answered success, the other found the
\* records, missed the files and answered failure.
C15_Witness ==
  \E r1, r2 \in Reqs :
    /\ r1 # r2
    /\ req[r1].op = "deleteCategory" /\ req[r2].op = "deleteCategory"
    /\ req[r1].id = req[r2].id
    /\ faults = 0
    /\ req[r1].tasks = {} /\ req[r2].tasks = {}
    /\ req[r1].resp.status = 200
    /\ req[r2].resp.status = 500
    /\ req[r2].resp.err = "IOError"

\* C17: the step in which the store applies deletePicture(id) removes the
\* record of that id and leaves every other picture record, every category
\* record, every file and every call in flight as it was.
C17_DeletePictureRemovesOnlyRecord ==
  [][\A r \in Reqs :
       (/\ req[r].op = "deletePicture"
        /\ Task("findByIdAndRemove") \in req[r].tasks
        /\ req'[r].tasks = {}
        /\ faults' = faults)
         => /\ pictures' = [q \in DOMAIN pictures \ {req[r].id} |-> pictures[q]]
            /\ categories' = categories
            /\ files' = files
            /\ pending' = pending
            /\ req'[r].resp.status = 200]_vars

\* A seeded picture deleted: the record is gone, its file is still there.
C17_Witness ==
  \E r \in Reqs :
    /\ req[r].op = "deletePicture"
    /\ req[r].resp.status = 200
    /\ req[r].id \in 1..SeedPics
    /\ req[r].id \notin DOMAIN pictures
    /\ blobOf(seedUrl(req[r].id))

\* C18: an updatePicture or deletePicture on the picture id that was never
\* given out, or a deleteCategory on the category id that was never given
\* out, the only request so far and with well-formed input, once finished
\* without any failed call, has answered success, and the records are the
\* seeded ones and no file was removed or given a final name.
seedPictures ==
  [p \in 1..SeedPics |->
     [categoryId |-> 1, matches |-> <<<<"a">>>>,
      imageUrl |-> seedUrl(p), dateAdded |-> p + 1]]

missingId(rq) ==
  \/ /\ rq.op = "updatePicture"
     /\ rq.id = SeedPics + 1
     /\ ~matchesFalsy(rq.matches)
     /\ rq.image.present => ~getExtensionThrows(rq.image.originalname)
  \/ /\ rq.op = "deletePicture"
     /\ rq.id = SeedPics + 1
  \/ /\ rq.op = "deleteCategory"
     /\ rq.id = 2

C18_MissingIdIsNoOp ==
  \A r \in Reqs :
    (/\ ops = 1
     /\ faults = 0
     /\ missingId(req[r])
     /\ req[r].tasks = {}
     /\ pending = {})
      => /\ req[r].resp.status = 200
         /\ pictures = seedPictures
         /\ DOMAIN categories = {1}
         /\ seedFilesOf(1) \subseteq files
         /\ req[r].image.present => ~blobOf(ownUrl(req[r]))

\* C19: when a createPicture for a category and a deleteCategory of it were
\* in flight together, and both and every call they issued have finished
\* with no failed call, a picture of the category is stored only if the
\* category record is.
C19_NoPictureSurvivesCascade ==
  \A r1, r2 \in Reqs :
    (/\ req[r1].op = "createPicture"
     /\ req[r2].op = "deleteCategory"
     /\ req[r1].id = req[r2].id
     /\ ops = 2
     /\ faults = 0
     /\ req[r1].tasks = {} /\ req[r2].tasks = {}
     /\ pending = {})
      => \/ picturesOf(req[r2].id) = {}
         \/ req[r2].id \in DOMAIN categories

\* C20: a request none of whose calls is outstanding any more has been
\* answered.
C20_FinishedMeansAnswered ==
  \A r \in Reqs :
    (req[r].op # "none" /\ req[r].tasks = {}) => req[r].resp.status # 0

====
